---- MODULE Spec2Model ----
(***************************************************************************)
(* Model of the LIGATE computer-aided drug design workflow built on        *)
(* HyperQueue: the job graphs assembled by awh.py, the solvate/minimize    *)
(* steps and their text substitution, the external tool wrapper, the LiGen *)
(* pipeline description, the per-edge directories and the directory        *)
(* helpers.                                                                *)
(***************************************************************************)
EXTENDS Integers, Sequences, FiniteSets, TLC

VARIABLES
    \* ---- job graph (awh.py) and its execution by the scheduler
    wf,         \* which workflow function builds the job: "ligen" or "awh"
    bpc,        \* position of the workflow function that builds the job
    deps,       \* task -> set of predecessor tasks (job.function(..., deps=...))
    status,     \* task -> "none" (not in the job) or its scheduler state
    outTasks,   \* terminal task list returned by the last sub-pipeline submit
    \* ---- execution of the solvate/minimize task functions
    tpc,        \* task -> position inside its task function
    files,      \* the paths that exist as files in the workspace
    touched,    \* task -> paths the task created, wrote or deleted
    fixedGro,   \* the .gro files the atom-rename table has been applied to
    grompped,   \* the workloads grompp has been invoked for
    failure,    \* task -> why its function raised ("none" when it did not)
    \* ---- BinaryWrapper.execute
    xpc,        \* position inside execute ("idle" between calls)
    xargs,      \* the args list of the call (indices into ArgPool)
    xinput,     \* the input keyword: "None" or "bytes"
    xenv,       \* the env keyword: "None" or a dict of overrides
    environment,\* the environment handed to the child process
    cmd,        \* normalize_arguments' output
    kwargs,     \* the keyword arguments built for subprocess.run
    spawned,    \* number of child processes spawned so far
    spawnedBefore, \* that number when the current call began
    returncode, \* <<exit code>> of the child of the current call (<<>> before)
    exc,        \* <<the exception the current call raised>> (<<>> when none)
    calls,      \* number of execute calls made
    \* ---- screening_task (the LiGen pipeline description)
    gpc,        \* position inside screening_task
    config,     \* the ScreeningConfig worker counts of the call
    description,\* the pipeline description built so far (<<>> before)
    engineRuns, \* number of ligen.run invocations
    gerr,       \* the error screening_task raised ("none" when it did not)
    \* ---- ensure_directory and the filesystem under the workspace root
    dirs,       \* the paths that are directories
    regs,       \* the paths that are regular files
    fres,       \* outcome of the last ensure_directory call
    round,      \* progress of the clear / create a file inside / clear round trip
    scnPath,    \* the path of the last ensure_directory call
    fclear,     \* the clear argument of the last ensure_directory call
    \* ---- LigConvContext and its per-edge directories
    protein_ff, \* the context's protein forcefield name ("none": no context)
    edgeDirs,   \* the edge_dir calls made: [edge, dir] records
    convDirs,   \* the directories that exist under the context's workdir
    \* ---- modify_grofile_inplace on the content of one .gro file
    gro,        \* the content of the file, a sequence of characters
    groFirst,   \* <<the content the first call left>> (<<>> before that)
    groCalls    \* number of modify_grofile_inplace calls made on the file

graphVars == <<wf, bpc, deps, status, outTasks>>

minVars == <<tpc, files, touched, fixedGro, grompped, failure>>

execVars == <<xpc, xargs, xinput, xenv, environment, cmd, kwargs, spawned,
              spawnedBefore, returncode, exc, calls>>

genVars == <<gpc, config, description, engineRuns, gerr>>

fsVars == <<dirs, regs, fres, round, scnPath, fclear>>

convVars == <<protein_ff, edgeDirs, convDirs>>

substVars == <<gro, groFirst, groCalls>>

vars == <<graphVars, minVars, execVars, genVars, fsVars, convVars, substVars>>

\* Number of edges in the edge set handed to hq_submit_minimization.
NumEdges == 2

Edges == 1..NumEdges

T(kind, e) == <<kind, e>>

LigenTasks ==
    { T(k, 0) : k \in {"check_protein", "vs_expansion", "screening",
                       "select_ligands", "dock_expansion", "docking"} }

AwhTasks ==
    { T(k, e) : k \in {"editconf", "em_ligand", "em_protein"}, e \in Edges }
        \cup { T("snapshot", 0) }

AllTasks == LigenTasks \cup AwhTasks

TaskStates == {"Pending", "Ready", "Running", "Succeeded", "Failed", "Skipped"}


(***************************************************************************)
(* Task graph construction                                                 *)
(***************************************************************************)

\* submit_screening: the screening task depends on the ligand expansion task.
SubmitScreeningDeps(expansionTask) == {expansionTask}

\* solvate_prepare: both energy minimization tasks get deps=[task], the
\* editconf task.
SolvatePrepareBrokenDeps(editconfTask) == {}

SolvatePrepareDeps(editconfTask) == {editconfTask}

\* solvate_prepare returns one energy minimization task per input workload.
SolvatePrepareFirstOnly(e) == {T("em_ligand", e)}

SolvatePrepareTasks(e) == {T("em_ligand", e), T("em_protein", e)}

\* snapshot_task(dir, name, tasks): job.function(..., deps=tasks).
SnapshotTaskDeps(tasks) == tasks

\* ligen_workflow: deps=[task] handed to the virtual screening workflow.
LigenScreeningDeps(task) == {task}

\* ligen_workflow: hq_submit_select_ligands(selection_config, job, output.tasks).
LigenSelectNoDeps(tasks) == {}

LigenSelectDeps(tasks) == tasks

\* ligen_workflow: deps=[select_task] handed to the docking workflow.
LigenDockingNoDeps(selectTask) == {}

LigenDockingDeps(selectTask) == {selectTask}

\* job.function(fn, deps=d): the task joins the job with its predecessors.
JobFunction(dp, st, t, d) ==
    [deps |-> [dp EXCEPT ![t] = d], status |-> [st EXCEPT ![t] = "Pending"]]

\* hq_submit_check_protein(protein_pdb, workdir, job)
SubmitCheckProtein ==
    /\ wf = "ligen" /\ bpc = "check_protein"
    /\ LET j == JobFunction(deps, status, T("check_protein", 0), {})
       IN  /\ deps' = j.deps
           /\ status' = j.status
    /\ outTasks' = {T("check_protein", 0)}
    /\ bpc' = "screening"
    /\ UNCHANGED wf

\* hq_submit_ligen_virtual_screening_workflow(..., deps=[task]): the ligand
\* expansion task takes the caller's predecessors, submit_screening follows it;
\* the returned terminal task set is the screening task.
SubmitVirtualScreening ==
    /\ wf = "ligen" /\ bpc = "screening"
    /\ LET exp == T("vs_expansion", 0)
           scr == T("screening", 0)
           j1  == JobFunction(deps, status, exp,
                              LigenScreeningDeps(T("check_protein", 0)))
           j2  == JobFunction(j1.deps, j1.status, scr, SubmitScreeningDeps(exp))
       IN  /\ deps' = j2.deps
           /\ status' = j2.status
           /\ outTasks' = {scr}
    /\ bpc' = "select"
    /\ UNCHANGED wf

\* hq_submit_select_ligands(selection_config, job, output.tasks)
SubmitSelectLigands ==
    /\ wf = "ligen" /\ bpc = "select"
    /\ LET j == JobFunction(deps, status, T("select_ligands", 0),
                            LigenSelectDeps(outTasks))
       IN  /\ deps' = j.deps
           /\ status' = j.status
    /\ outTasks' = {T("select_ligands", 0)}
    /\ bpc' = "docking"
    /\ UNCHANGED wf

\* hq_submit_ligen_docking_workflow(..., deps=[select_task])
SubmitDocking ==
    /\ wf = "ligen" /\ bpc = "docking"
    /\ LET exp == T("dock_expansion", 0)
           dck == T("docking", 0)
           j1  == JobFunction(deps, status, exp,
                              LigenDockingDeps(T("select_ligands", 0)))
           j2  == JobFunction(j1.deps, j1.status, dck, {exp})
       IN  /\ deps' = j2.deps
           /\ status' = j2.status
           /\ outTasks' = {dck}
    /\ bpc' = "built"
    /\ UNCHANGED wf

\* solvate_prepare(ctx, triple, params, job) for the workloads of edge e:
\* the graph after its three job.function calls.
SolvatePrepare(dp, st, e) ==
    LET ed == T("editconf", e)
        j0 == JobFunction(dp, st, ed, {})
        j1 == JobFunction(j0.deps, j0.status, T("em_ligand", e),
                          SolvatePrepareDeps(ed))
    IN  JobFunction(j1.deps, j1.status, T("em_protein", e), SolvatePrepareDeps(ed))

RECURSIVE SolvatePrepareAll(_, _, _)
SolvatePrepareAll(dp, st, n) ==
    IF n = 0 THEN [deps |-> dp, status |-> st]
    ELSE LET j == SolvatePrepareAll(dp, st, n - 1)
         IN  SolvatePrepare(j.deps, j.status, n)

\* hq_submit_minimization(edge_set, ...): one solvate_prepare per edge;
\* solvated.tasks() is every task those calls returned.
SubmitMinimization ==
    /\ wf = "awh" /\ bpc = "minimization"
    /\ LET j == SolvatePrepareAll(deps, status, NumEdges)
       IN  /\ deps' = j.deps
           /\ status' = j.status
    /\ outTasks' = UNION { SolvatePrepareTasks(e) : e \in Edges }
    /\ bpc' = "snapshot"
    /\ UNCHANGED wf

\* task = snapshot_task(actual_input_dir, "after-minimization", solvated.tasks())
SubmitSnapshot ==
    /\ wf = "awh" /\ bpc = "snapshot"
    /\ LET j == JobFunction(deps, status, T("snapshot", 0),
                            SnapshotTaskDeps(outTasks))
       IN  /\ deps' = j.deps
           /\ status' = j.status
    /\ bpc' = "built"
    /\ UNCHANGED <<wf, outTasks>>

\* client.submit(job): the whole graph is handed to the scheduler.
ClientSubmit ==
    /\ bpc = "built"
    /\ bpc' = "submitted"
    /\ UNCHANGED <<wf, deps, status, outTasks>>

(***************************************************************************)
(* The scheduler's task state machine                                      *)
(***************************************************************************)

InJob == { t \in AllTasks : status[t] # "none" }

\* The stage of the workflow a task belongs to.
Stage(t) ==
    CASE t[1] = "check_protein" -> "check"
      [] t[1] \in {"vs_expansion", "screening"} -> "screening"
      [] t[1] = "select_ligands" -> "selection"
      [] t[1] \in {"dock_expansion", "docking"} -> "docking"
      [] t[1] \in {"editconf", "em_ligand", "em_protein"} -> "minimization"
      [] OTHER -> "snapshot"

\* ligen_workflow's stages in the order it submits them.
LigenStageOrder == <<"check", "screening", "selection", "docking">>

\* Every task t depends on, directly or through other tasks.
RECURSIVE TransDeps(_)
TransDeps(t) == deps[t] \cup UNION { TransDeps(d) : d \in deps[t] }

\* The tasks of a stage no other task of the stage depends on.
StageTerminals(s) ==
    { t \in InJob : /\ Stage(t) = s
                    /\ ~ \E u \in InJob : Stage(u) = s /\ t \in deps[u] }

Started(t) == status[t] \in {"Running", "Succeeded", "Failed"}

\* Pending -> Ready once every declared dependency has succeeded.
MakeReady(t) ==
    /\ bpc = "submitted"
    /\ status[t] = "Pending"
    /\ \A d \in deps[t] : status[d] = "Succeeded"
    /\ status' = [status EXCEPT ![t] = "Ready"]
    /\ UNCHANGED <<wf, bpc, deps, outTasks>>

\* Ready -> Running
Start(t) ==
    /\ bpc = "submitted"
    /\ status[t] = "Ready"
    /\ status' = [status EXCEPT ![t] = "Running"]
    /\ UNCHANGED <<wf, bpc, deps, outTasks>>

\* Running -> Succeeded
Succeed(t) ==
    /\ bpc = "submitted"
    /\ status[t] = "Running"
    /\ status' = [status EXCEPT ![t] = "Succeeded"]
    /\ UNCHANGED <<wf, bpc, deps, outTasks>>

\* Running -> Failed
Fail(t) ==
    /\ bpc = "submitted"
    /\ status[t] = "Running"
    /\ status' = [status EXCEPT ![t] = "Failed"]
    /\ UNCHANGED <<wf, bpc, deps, outTasks>>

\* A task depending on a failed (or skipped) task goes directly to Skipped.
Skip(t) ==
    /\ bpc = "submitted"
    /\ status[t] = "Pending"
    /\ \E d \in deps[t] : status[d] \in {"Failed", "Skipped"}
    /\ status' = [status EXCEPT ![t] = "Skipped"]
    /\ UNCHANGED <<wf, bpc, deps, outTasks>>

GraphInit ==
    /\ wf \in {"ligen", "awh"}
    /\ bpc = IF wf = "ligen" THEN "check_protein" ELSE "minimization"
    /\ deps = [t \in AllTasks |-> {}]
    /\ status = [t \in AllTasks |-> "none"]
    /\ outTasks = {}

(***************************************************************************)
(* The solvate/minimize task functions (solvate_minimize.py), step by step  *)
(***************************************************************************)

Lops == {"Ligand", "Protein"}

\* solvate_prepare: ligand_dir = ctx.workdir / "ligand", protein_dir likewise.
Directory(lop) ==
    IF lop = "Ligand" THEN <<"workdir", "ligand">> ELSE <<"workdir", "protein">>

\* A relative path is resolved against the working directory of the process
\* that runs the task; the tasks of a job run in the job's working directory.
Cwd == <<"cwd">>

\* corrected_box_path(input)
CorrectedBoxPath(lop) == Directory(lop) \o <<"correctBox.gro">>

\* solvated_path(input)
SolvatedPath(lop) == Directory(lop) \o <<"solvated.gro">>

\* get_topname(input, triple): "ligandInWater" or protein_ff(triple)
GetTopname(lop) == IF lop = "Ligand" THEN "ligandInWater" ELSE "protein_ff"

\* ctx.workdir / topology_path(topname)
TopologyPath(topname) == <<"workdir", "topology", "topol_", topname, ".top">>

\* ctx.workdir / f"topology/#topol_{topname}.top.1#": the backup the tool
\* leaves when it rewrites the topology.
TopologyBackup(topname) == <<"workdir", "topology", "#topol_", topname, ".top.1#">>

AddIonsTpr(lop) == Directory(lop) \o <<"addIons.tpr">>

IonsGro(lop) == Directory(lop) \o <<"ions.gro">>

\* add_ions: generated_mdp = "generated_em_l0.mdp", a relative path.
GeneratedMdp(lop) == Cwd \o <<"generated_em_l0.mdp">>

\* grompp's default -po output, the file delete_file("mdout.mdp") removes.
MdoutMdp(lop) == Cwd \o <<"mdout.mdp">>

EmTpr(lop) == Directory(lop) \o <<"EM.tpr">>

EmOutMdp(lop) == Directory(lop) \o <<"EMout.mdp">>

\* mdrun -deffnm EM with workdir=input.directory: outputs named EM.* there.
MdrunOutputs(lop) ==
    { Directory(lop) \o <<n>> : n \in {"EM.gro", "EM.edr", "EM.log", "EM.trr"} }

EditTask == T("editconf", 1)

EMTask(lop) == T(IF lop = "Ligand" THEN "em_ligand" ELSE "em_protein", 1)

MinTasks == {EditTask} \cup { EMTask(lop) : lop \in Lops }

\* Exit codes of a tool process: success, or one nonzero code.
ExitCodes == {0, 1}

\* The files the workflow starts from.
InputFiles ==
    { <<"workdir", "structure", "mergedA.pdb">>,
      <<"workdir", "structure", "full.pdb">>,
      <<"mdpdir", "em_l0.mdp">> } \cup { TopologyPath(GetTopname(lop)) : lop \in Lops }

\* The step completes: the task function moves on (or returns).
StepOk(t, next, newFiles, wrote, newFixed, newGrompped) ==
    /\ files' = newFiles
    /\ touched' = [touched EXCEPT ![t] = @ \cup wrote]
    /\ fixedGro' = newFixed
    /\ grompped' = newGrompped
    /\ tpc' = [tpc EXCEPT ![t] = next]
    /\ status' = IF next = "done" THEN [status EXCEPT ![t] = "Succeeded"] ELSE status
    /\ UNCHANGED <<failure, wf, bpc, deps, outTasks>>

\* The step raises: the task function ends and the task is Failed.
StepRaise(t, why, wrote, newGrompped) ==
    /\ failure' = [failure EXCEPT ![t] = why]
    /\ touched' = [touched EXCEPT ![t] = @ \cup wrote]
    /\ grompped' = newGrompped
    /\ tpc' = [tpc EXCEPT ![t] = "raised"]
    /\ status' = [status EXCEPT ![t] = "Failed"]
    /\ UNCHANGED <<files, fixedGro, wf, bpc, deps, outTasks>>

\* gmx.execute([...]): the tool reads its inputs and, exiting 0, leaves its
\* outputs; a missing input or a nonzero exit code raises (BinaryWrapper.execute).
GmxExecute(t, next, reads, writes, newGrompped) ==
    \E rc \in ExitCodes :
        IF rc = 0 /\ reads \subseteq files
        THEN StepOk(t, next, files \cup writes, writes, fixedGro \ writes, newGrompped)
        ELSE StepRaise(t, "tool", {}, newGrompped)

\* delete_file left out: the file stays where it is.
DeleteFileKeeps(t, next, path) ==
    StepOk(t, next, files, {path}, fixedGro, grompped)

\* delete_file(path): os.unlink raises when the file is not there.
DeleteFile(t, next, path) ==
    IF path \in files
    THEN StepOk(t, next, files \ {path}, {path}, fixedGro \ {path}, grompped)
    ELSE StepRaise(t, "missing_file", {path}, grompped)

\* replace_in_place(path, replacements): read, replace, write back.
ReplaceInPlace(t, next, path, newFixed) ==
    IF path \in files
    THEN StepOk(t, next, files, {path}, newFixed, grompped)
    ELSE StepRaise(t, "missing_file", {path}, grompped)

At(t, step) == bpc = "submitted" /\ status[t] = "Running" /\ tpc[t] = step

\* editconf_task: gmx.editconf(structure/mergedA.pdb, correctBox.gro of the ligand)
EditconfLigand ==
    /\ At(EditTask, "editconf_ligand")
    /\ GmxExecute(EditTask, "editconf_protein",
                  {<<"workdir", "structure", "mergedA.pdb">>},
                  {CorrectedBoxPath("Ligand")}, grompped)

\* editconf_task: gmx.editconf(structure/full.pdb, correctBox.gro of the protein)
EditconfProtein ==
    /\ At(EditTask, "editconf_protein")
    /\ GmxExecute(EditTask, "modify_grofile",
                  {<<"workdir", "structure", "full.pdb">>},
                  {CorrectedBoxPath("Protein")}, grompped)

\* editconf_task: the files modify_grofile_inplace is called on.
ModifiedGrofiles == {CorrectedBoxPath("Protein")}

\* editconf_task: modify_grofile_inplace(corrected_box_path(input_protein))
ModifyGrofileInplace ==
    /\ At(EditTask, "modify_grofile")
    /\ IF ModifiedGrofiles \subseteq files
       THEN StepOk(EditTask, "done", files, ModifiedGrofiles,
                   fixedGro \cup ModifiedGrofiles, grompped)
       ELSE StepRaise(EditTask, "missing_file", ModifiedGrofiles, grompped)

\* solvate: gmx solvate -cp correctBox.gro -cs spc216.gro -p topology -o solvated
SolvateExecute(lop) ==
    /\ At(EMTask(lop), "solvate")
    /\ GmxExecute(EMTask(lop), "solvate_delete_backup",
                  {CorrectedBoxPath(lop), TopologyPath(GetTopname(lop))},
                  {SolvatedPath(lop), TopologyPath(GetTopname(lop)),
                   TopologyBackup(GetTopname(lop))}, grompped)

\* solvate: delete_file(ctx.workdir / f"topology/#topol_{topname}.top.1#")
SolvateDeleteBackup(lop) ==
    /\ At(EMTask(lop), "solvate_delete_backup")
    /\ DeleteFile(EMTask(lop), "solvate_replace", TopologyBackup(GetTopname(lop)))

\* solvate: replace_in_place(solvated, [("HOH", "SOL")])
SolvateReplace(lop) ==
    /\ At(EMTask(lop), "solvate_replace")
    /\ ReplaceInPlace(EMTask(lop), "render_mdp", SolvatedPath(lop), fixedGro)

\* add_ions: render_mdp(ctx.mdpdir / "em_l0.mdp", generated_mdp, nsteps=...)
RenderMdp(lop) ==
    /\ At(EMTask(lop), "render_mdp")
    /\ IF <<"mdpdir", "em_l0.mdp">> \in files
       THEN StepOk(EMTask(lop), "grompp_ions", files \cup {GeneratedMdp(lop)},
                   {GeneratedMdp(lop)}, fixedGro, grompped)
       ELSE StepRaise(EMTask(lop), "missing_file", {}, grompped)

\* add_ions: gmx grompp -f generated_mdp -c solvated -p topology -o addIons.tpr
GromppIons(lop) ==
    /\ At(EMTask(lop), "grompp_ions")
    /\ GmxExecute(EMTask(lop), "delete_mdout",
                  {GeneratedMdp(lop), SolvatedPath(lop), TopologyPath(GetTopname(lop))},
                  {AddIonsTpr(lop), MdoutMdp(lop)}, grompped \cup {lop})

\* add_ions: delete_file("mdout.mdp")
DeleteMdout(lop) ==
    /\ At(EMTask(lop), "delete_mdout")
    /\ DeleteFile(EMTask(lop), "genion", MdoutMdp(lop))

\* add_ions: gmx genion -s addIons.tpr -o ions.gro -p topology ...
Genion(lop) ==
    /\ At(EMTask(lop), "genion")
    /\ GmxExecute(EMTask(lop), "genion_delete_backup",
                  {AddIonsTpr(lop), TopologyPath(GetTopname(lop))},
                  {IonsGro(lop), TopologyPath(GetTopname(lop)),
                   TopologyBackup(GetTopname(lop))}, grompped)

\* add_ions: delete_file(ctx.workdir / f"topology/#topol_{topname}.top.1#")
GenionDeleteBackup(lop) ==
    /\ At(EMTask(lop), "genion_delete_backup")
    /\ DeleteFile(EMTask(lop), "delete_add_ions", TopologyBackup(GetTopname(lop)))

\* add_ions: delete_file(add_ions)
DeleteAddIons(lop) ==
    /\ At(EMTask(lop), "delete_add_ions")
    /\ DeleteFile(EMTask(lop), "grompp_em", AddIonsTpr(lop))

\* energy_minimize: gmx grompp -f prepared.mdp -c ions.gro -p topology
\*                  -o EM.tpr -po EMout.mdp
GromppEM(lop) ==
    /\ At(EMTask(lop), "grompp_em")
    /\ GmxExecute(EMTask(lop), "mdrun",
                  {GeneratedMdp(lop), IonsGro(lop), TopologyPath(GetTopname(lop))},
                  {EmTpr(lop), EmOutMdp(lop)}, grompped \cup {lop})

\* energy_minimize: gmx mdrun -v -deffnm EM, workdir=input.directory
Mdrun(lop) ==
    /\ At(EMTask(lop), "mdrun")
    /\ GmxExecute(EMTask(lop), "done", {EmTpr(lop)}, MdrunOutputs(lop), grompped)

MinIdle ==
    /\ tpc = [t \in MinTasks |-> "idle"]
    /\ files = {}
    /\ touched = [t \in MinTasks |-> {}]
    /\ fixedGro = {}
    /\ grompped = {}
    /\ failure = [t \in MinTasks |-> "none"]

\* The job holds the three tasks of solvate_prepare and has been submitted.
MinInit ==
    /\ wf = "awh"
    /\ bpc = "submitted"
    /\ LET j == SolvatePrepare([t \in AllTasks |-> {}], [t \in AllTasks |-> "none"], 1)
       IN  deps = j.deps /\ status = j.status
    /\ outTasks = SolvatePrepareTasks(1)
    /\ tpc = [t \in MinTasks |-> IF t = EditTask THEN "editconf_ligand" ELSE "solvate"]
    /\ files = InputFiles
    /\ touched = [t \in MinTasks |-> {}]
    /\ fixedGro = {}
    /\ grompped = {}
    /\ failure = [t \in MinTasks |-> "none"]

\* The variables the solvate/minimize specification leaves alone.
minIdle == <<execVars, genVars, fsVars, convVars, substVars>>

MinNext ==
    \/ \E t \in MinTasks : MakeReady(t) /\ UNCHANGED <<minVars, minIdle>>
    \/ \E t \in MinTasks : Start(t) /\ UNCHANGED <<minVars, minIdle>>
    \/ \E t \in MinTasks : Skip(t) /\ UNCHANGED <<minVars, minIdle>>
    \/ EditconfLigand /\ UNCHANGED minIdle
    \/ EditconfProtein /\ UNCHANGED minIdle
    \/ ModifyGrofileInplace /\ UNCHANGED minIdle
    \/ \E lop \in Lops : SolvateExecute(lop) /\ UNCHANGED minIdle
    \/ \E lop \in Lops : SolvateDeleteBackup(lop) /\ UNCHANGED minIdle
    \/ \E lop \in Lops : SolvateReplace(lop) /\ UNCHANGED minIdle
    \/ \E lop \in Lops : RenderMdp(lop) /\ UNCHANGED minIdle
    \/ \E lop \in Lops : GromppIons(lop) /\ UNCHANGED minIdle
    \/ \E lop \in Lops : DeleteMdout(lop) /\ UNCHANGED minIdle
    \/ \E lop \in Lops : Genion(lop) /\ UNCHANGED minIdle
    \/ \E lop \in Lops : GenionDeleteBackup(lop) /\ UNCHANGED minIdle
    \/ \E lop \in Lops : DeleteAddIons(lop) /\ UNCHANGED minIdle
    \/ \E lop \in Lops : GromppEM(lop) /\ UNCHANGED minIdle
    \/ \E lop \in Lops : Mdrun(lop) /\ UNCHANGED minIdle

(***************************************************************************)
(* screening_task (virtual_screening.py)                                   *)
(***************************************************************************)

\* Largest worker count of a ScreeningConfig the model draws.
MaxWorkers == 3

WorkerCounts == 0..MaxWorkers

\* description["pipeline"] as screening_task writes it.
Pipeline(cfg) ==
    << [kind |-> "reader_mol2", name |-> "reader", input_filepath |-> "input_smi"],
       [kind |-> "parser_mol2", number_of_workers |-> cfg.num_parser],
       [kind |-> "bucketizer_ligand", name |-> "bucketizer"],
       [kind |-> "unfold", cpp_workers |-> cfg.num_workers_unfold],
       [kind |-> "dock_n_score", wait_setup |-> "reader",
        number_of_restart |-> "256", clipping_factor |-> "256",
        scoring_functions |-> <<"d22">>,
        cpp_workers |-> cfg.num_workers_docknscore],
       [kind |-> "writer_csv_bucket", name |-> "writer", wait_setup |-> "reader",
        output_filepath |-> "output_csv", print_preamble |-> "1",
        csv_fields |-> <<"SCORE_PROTEIN_NAME", "D22_SCORE">>],
       [kind |-> "tracker_bucket", wait_setup |-> "reader"],
       [kind |-> "sink_bucket", number_of_workers |-> "1"] >>

\* description["targets"]
Targets ==
    << [name |-> "input_protein_name",
        configuration |->
          [input |-> [format |-> "protein", protein_path |-> "input_pdb"],
           filtering |-> [algorithm |-> "probe", path |-> "input_mol2",
                          radius |-> "8"],
           pocket_identification |-> [algorithm |-> "caviar_like"],
           anchor_points |-> [algorithms |-> "maximum_points",
                              separation_radius |-> "4"]]] >>

\* The worker count a stage of the description declares, <<>> when it has none.
StageWorkers(stage) ==
    IF "number_of_workers" \in DOMAIN stage THEN <<stage.number_of_workers>>
    ELSE IF "cpp_workers" \in DOMAIN stage THEN <<stage.cpp_workers>>
    ELSE <<>>

\* screening_task(ctx, config) is called by the task.
ScreeningTaskCall ==
    /\ gpc = "idle"
    /\ \E p \in WorkerCounts, u \in WorkerCounts, d \in WorkerCounts :
         config' = [num_parser |-> p, num_workers_unfold |-> u,
                    num_workers_docknscore |-> d]
    /\ gpc' = "describe"
    /\ UNCHANGED <<description, engineRuns, gerr>>

\* description = {"name": "vscreen", "pipeline": [...], "targets": [...]}
BuildDescription ==
    /\ gpc = "describe"
    /\ description' = <<[name |-> "vscreen", pipeline |-> Pipeline(config),
                         targets |-> Targets]>>
    /\ gpc' = "run"
    /\ UNCHANGED <<config, engineRuns, gerr>>

\* ligen.run("ligen", input=json.dumps(description).encode("utf8"))
LigenRun ==
    /\ gpc = "run"
    /\ engineRuns' = engineRuns + 1
    /\ \E rc \in ExitCodes :
         gerr' = IF rc = 0 THEN "none" ELSE "ToolExecutionFailure"
    /\ gpc' = "done"
    /\ UNCHANGED <<config, description>>

GenIdle ==
    /\ gpc = "idle"
    /\ config = [num_parser |-> 20, num_workers_unfold |-> 20,
                 num_workers_docknscore |-> 100]
    /\ description = <<>>
    /\ engineRuns = 0
    /\ gerr = "none"

\* The variables the screening_task specification leaves alone.
genIdle == <<graphVars, minVars, execVars, fsVars, convVars, substVars>>

GenNext ==
    \/ ScreeningTaskCall /\ UNCHANGED genIdle
    \/ BuildDescription /\ UNCHANGED genIdle
    \/ LigenRun /\ UNCHANGED genIdle

(***************************************************************************)
(* ensure_directory (utils/io.py) on a small filesystem                    *)
(***************************************************************************)

\* Deepest path below the workspace root, and the number of entries other code
\* creates there.
MaxDepth == 3

MaxEntries == 4

Names == {"a", "b"}

\* Paths relative to the workspace root; <<>> is the root itself.
AllPaths == UNION { [1..n -> Names] : n \in 1..MaxDepth }

\* os.path.dirname(path)
Dirname(p) == IF p = <<>> THEN <<>> ELSE SubSeq(p, 1, Len(p) - 1)

IsPrefix(p, q) == Len(p) <= Len(q) /\ SubSeq(q, 1, Len(p)) = p

\* The root is a directory that always exists.
IsDir(ds, p) == p = <<>> \/ p \in ds

IsFile(rs, p) == p \in rs

Ancestors(p) == { SubSeq(p, 1, n) : n \in 0..Len(p) }

ClearNever(clear, isDir) == FALSE

\* ensure_directory: if clear and os.path.isdir(path)
ClearCondition(clear, isDir) == clear /\ isDir

\* ensure_directory(path, clear): the filesystem it leaves, whether
\* os.makedirs raised, and the path it returns.
EnsureDirectoryFs(ds, rs, path, clear) ==
    LET p   == IF IsFile(rs, path) /\ ~IsDir(ds, path) THEN Dirname(path) ELSE path
        rm  == ClearCondition(clear, IsDir(ds, p))
        \* shutil.rmtree(path, ignore_errors=True)
        ds1 == IF rm THEN { q \in ds : ~IsPrefix(p, q) } ELSE ds
        rs1 == IF rm THEN { q \in rs : ~IsPrefix(p, q) } ELSE rs
        \* os.makedirs(path, exist_ok=True)
        bad == \E q \in Ancestors(p) : IsFile(rs1, q)
    IN  IF bad
        THEN [dirs |-> ds1, regs |-> rs1, raised |-> TRUE, result |-> p]
        ELSE [dirs |-> ds1 \cup (Ancestors(p) \ {<<>>}), regs |-> rs1,
              raised |-> FALSE, result |-> p]

\* ensure_directory(path, clear) is called: on any path of the workspace, or
\* for the second time on the path of the round trip.
EnsureDirectory(path, clear) ==
    /\ \/ fres = <<>>
       \/ round = 2 /\ path = scnPath /\ clear
    /\ LET r == EnsureDirectoryFs(dirs, regs, path, clear)
       IN  /\ dirs' = r.dirs
           /\ regs' = r.regs
           /\ fres' = IF r.raised THEN <<"raised">> ELSE <<"returned", r.result>>
           /\ round' = IF r.raised \/ ~clear THEN 0
                       ELSE IF round = 2 THEN 3
                       ELSE 1
    /\ scnPath' = path
    /\ fclear' = clear

\* Other code creates a directory: path.mkdir(exist_ok=True).
Mkdir(p) ==
    /\ fres = <<>>
    /\ Cardinality(dirs \cup regs) < MaxEntries
    /\ IsDir(dirs, Dirname(p)) /\ p \notin dirs /\ p \notin regs
    /\ dirs' = dirs \cup {p}
    /\ UNCHANGED <<regs, fres, round, scnPath, fclear>>

\* Other code creates a file: open(p, "w").
CreateFile(p) ==
    /\ fres = <<>>
    /\ Cardinality(dirs \cup regs) < MaxEntries
    /\ IsDir(dirs, Dirname(p)) /\ p \notin dirs /\ p \notin regs
    /\ regs' = regs \cup {p}
    /\ UNCHANGED <<dirs, fres, round, scnPath, fclear>>

\* After ensure_directory(path, clear=True) a file is created inside path.
CreateFileInside(n) ==
    /\ round = 1
    /\ Len(scnPath) < MaxDepth
    /\ IsDir(dirs, scnPath)
    /\ regs' = regs \cup {Append(scnPath, n)}
    /\ round' = 2
    /\ UNCHANGED <<dirs, fres, scnPath, fclear>>

FsIdle ==
    /\ dirs = {} /\ regs = {} /\ fres = <<>> /\ round = 0 /\ scnPath = <<>>
    /\ fclear = FALSE

\* The variables the ensure_directory specification leaves alone.
fsIdle == <<graphVars, minVars, execVars, genVars, convVars, substVars>>

FsNext ==
    \/ \E p \in AllPaths : Mkdir(p) /\ UNCHANGED fsIdle
    \/ \E p \in AllPaths : CreateFile(p) /\ UNCHANGED fsIdle
    \/ \E p \in AllPaths, c \in BOOLEAN :
         EnsureDirectory(p, c) /\ UNCHANGED fsIdle
    \/ \E n \in Names : CreateFileInside(n) /\ UNCHANGED fsIdle

(***************************************************************************)
(* Edges and the per-edge directories of LigConvContext                    *)
(* (pipelines/ligconv/common.py)                                           *)
(***************************************************************************)

\* Longest ligand name, and the number of edge_dir calls of one behaviour.
MaxNameLen == 3

MaxEdgeCalls == 2

\* The characters of a ligand name; a name is a non-empty string, modelled
\* as the sequence of its characters.
NameChars == {"a", "_"}

LigandNames == UNION { [1..n -> NameChars] : n \in 1..MaxNameLen }

\* @dataclass(frozen=True) class Edge: two edges are equal when both fields are.
Edge(start_ligand, end_ligand) ==
    [start_ligand |-> start_ligand, end_ligand |-> end_ligand]

AllEdges == { Edge(a, b) : a, b \in LigandNames }

\* The characters of the literal "edge_".
EdgePrefix == <<"e", "d", "g", "e", "_">>

\* edge_directory_name(edge): f"edge_{edge.start_ligand}_{edge.end_ligand}"
EdgeDirectoryName(edge) ==
    EdgePrefix \o edge.start_ligand \o <<"_">> \o edge.end_ligand

\* The forcefield names protein_ff.to_str() can give.
ProteinFfNames == {"amber", "charmm"}

\* LigConvContext.protein_dir: workdir / "p38"
ProteinDir == <<"workdir", "p38">>

\* The path LigConvContext.edge_dir(edge) hands to ensure_directory.
EdgeDirPath(edge, ff) == ProteinDir \o <<EdgeDirectoryName(edge), ff>>

\* LigConvContext.edge_dir(edge): protein_dir and then the edge's directory
\* are ensured (created with their parents), and the directory is returned.
EdgeDir(edge) ==
    /\ protein_ff # "none"
    /\ Cardinality(edgeDirs) < MaxEdgeCalls
    /\ \A r \in edgeDirs : r.edge # edge
    /\ LET pd == EnsureDirectoryFs(convDirs, {}, ProteinDir, FALSE)
           ed == EnsureDirectoryFs(pd.dirs, {}, EdgeDirPath(edge, protein_ff), FALSE)
       IN  /\ convDirs' = ed.dirs
           /\ edgeDirs' = edgeDirs \cup {[edge |-> edge, dir |-> ed.result]}
    /\ UNCHANGED protein_ff

ConvIdle ==
    /\ protein_ff = "none" /\ edgeDirs = {} /\ convDirs = {}

\* A context has been constructed over an empty workdir.
ConvStart ==
    /\ protein_ff \in ProteinFfNames /\ edgeDirs = {} /\ convDirs = {}

\* The variables the edge directory specification leaves alone.
convIdle == <<graphVars, minVars, execVars, genVars, fsVars, substVars>>

ConvNext ==
    \/ \E edge \in AllEdges : EdgeDir(edge) /\ UNCHANGED convIdle

(***************************************************************************)
(* The text substitution of modify_grofile_inplace                         *)
(* (solvate_minimize.py, utils/io.py)                                      *)
(***************************************************************************)

\* Number of pieces a file content is put together from, and the number of
\* modify_grofile_inplace calls of one behaviour.
MaxPieces == 5

MaxGroCalls == 2

\* A text is the sequence of its characters.  File contents are put
\* together from single characters of atom names and from the water
\* line fragment "HOH      O".
Pieces ==
    { <<"1">>, <<"2">>, <<"H">>, <<"D">>,
      <<"H", "O", "H", " ", " ", " ", " ", " ", " ", "O">> }

RECURSIVE Concat(_)
Concat(ps) == IF ps = <<>> THEN <<>> ELSE Head(ps) \o Concat(Tail(ps))

Contents == { Concat(ps) : ps \in UNION { [1..n -> Pieces] : n \in 0..MaxPieces } }

\* modify_grofile_inplace: the (before, after) pairs, in the order given.
GroReplacements ==
    <<<<<<"1", "H", "D", "1">>, <<"H", "D", "1", "1">>>>,
       <<<<"2", "H", "D", "1">>, <<"H", "D", "1", "2">>>>,
       <<<<"3", "H", "D", "1">>, <<"H", "D", "1", "3">>>>,
       <<<<"1", "H", "D", "2">>, <<"H", "D", "2", "1">>>>,
       <<<<"2", "H", "D", "2">>, <<"H", "D", "2", "2">>>>,
       <<<<"3", "H", "D", "2">>, <<"H", "D", "2", "3">>>>,
       <<<<"1", "H", "E", "2">>, <<"H", "E", "2", "1">>>>,
       <<<<"2", "H", "E", "2">>, <<"H", "E", "2", "2">>>>,
       <<<<"1", "H", "G", "1">>, <<"H", "G", "1", "1">>>>,
       <<<<"2", "H", "G", "1">>, <<"H", "G", "1", "2">>>>,
       <<<<"3", "H", "G", "1">>, <<"H", "G", "1", "3">>>>,
       <<<<"1", "H", "G", "2">>, <<"H", "G", "2", "1">>>>,
       <<<<"2", "H", "G", "2">>, <<"H", "G", "2", "2">>>>,
       <<<<"3", "H", "G", "2">>, <<"H", "G", "2", "3">>>>,
       <<<<"1", "H", "H", "1">>, <<"H", "H", "1", "1">>>>,
       <<<<"2", "H", "H", "1">>, <<"H", "H", "1", "2">>>>,
       <<<<"1", "H", "H", "2">>, <<"H", "H", "2", "1">>>>,
       <<<<"2", "H", "H", "2">>, <<"H", "H", "2", "2">>>>,
       <<<<"1", "H", "H", "3">>, <<"H", "H", "3", "1">>>>,
       <<<<"2", "H", "H", "3">>, <<"H", "H", "3", "2">>>>,
       <<<<"3", "H", "H", "3">>, <<"H", "H", "3", "3">>>>,
       <<<<"H", "O", "H", " ", " ", " ", " ", " ", " ", "O">>,
         <<"H", "O", "H", " ", " ", " ", " ", " ", "O", "W">>>>,
       <<<<"H", "O", "H", " ", " ", " ", " ", " ", "H", "1">>,
         <<"H", "O", "H", " ", " ", " ", " ", "H", "W", "1">>>>,
       <<<<"H", "O", "H", " ", " ", " ", " ", " ", "H", "2">>,
         <<"H", "O", "H", " ", " ", " ", " ", "H", "W", "2">>>> >>

\* data.replace(src, target): the occurrences of src found scanning from the
\* left, none overlapping another, are each replaced by target.
RECURSIVE StrReplace(_, _, _)
StrReplace(data, src, target) ==
    IF Len(data) < Len(src) THEN data
    ELSE IF SubSeq(data, 1, Len(src)) = src
         THEN target \o StrReplace(SubSeq(data, Len(src) + 1, Len(data)), src, target)
         ELSE <<Head(data)>> \o StrReplace(Tail(data), src, target)

\* replace_in_place: for (src, target) in replacements: data = data.replace(...)
RECURSIVE ApplyReplacements(_, _)
ApplyReplacements(data, replacements) ==
    IF replacements = <<>> THEN data
    ELSE ApplyReplacements(
             StrReplace(data, Head(replacements)[1], Head(replacements)[2]),
             Tail(replacements))

\* modify_grofile_inplace(path): the file is read, the table applied, and the
\* result written back.
ModifyGrofile ==
    /\ groCalls < MaxGroCalls
    /\ gro' = ApplyReplacements(gro, GroReplacements)
    /\ groFirst' = IF groCalls = 0 THEN <<gro'>> ELSE groFirst
    /\ groCalls' = groCalls + 1

SubstIdle ==
    /\ gro = <<>> /\ groFirst = <<>> /\ groCalls = 0

\* A .gro file with some content, not yet modified.
SubstStart ==
    /\ gro \in Contents /\ groFirst = <<>> /\ groCalls = 0

\* The variables the substitution specification leaves alone.
substIdle == <<graphVars, minVars, execVars, genVars, fsVars, convVars>>

SubstNext ==
    \/ ModifyGrofile /\ UNCHANGED substIdle

(***************************************************************************)
(* BinaryWrapper.execute and normalize_arguments (binarywrapper.py)        *)
(***************************************************************************)

\* Longest args list of a call, and the number of calls of one behaviour.
MaxArgs == 2

MaxCalls == 2

\* Python values a caller can put into args: their type and their value.
ArgPool ==
    << [type |-> "str", val |-> "grompp"],
       [type |-> "str", val |-> "-maxwarn"],
       [type |-> "PosixPath", val |-> "/workdir/ligand/solvated.gro"],
       [type |-> "int", val |-> 2],
       [type |-> "bool", val |-> TRUE],
       [type |-> "float", val |-> 15],
       [type |-> "NoneType", val |-> "None"],
       [type |-> "bytes", val |-> "SOL" ] >>

ArgIds == 1..Len(ArgPool)

\* The classes a value of the given type is an instance of.
Classes(type) ==
    CASE type = "bool" -> {"bool", "int"}
      [] type = "PosixPath" -> {"PosixPath", "Path"}
      [] OTHER -> {type}

IsInstance(v, class) == class \in Classes(v.type)

AllowedTypesWithFloat == {"str", "Path", "int", "float"}

\* normalize_arguments: allowed_types = (str, Path, int)
AllowedTypes == {"str", "Path", "int"}

\* str(item) for the values that pass the type check.
Str(v) ==
    CASE v.type = "int" -> ToString(v.val)
      [] v.type = "bool" -> (IF v.val THEN "True" ELSE "False")
      [] OTHER -> v.val

\* self.binary_path, a Path.
BinaryPath == [type |-> "PosixPath", val |-> "/installed/gromacs/bin/gmx"]

\* normalize_arguments(input): str(item) appended for each item in order, an
\* exception at the first item of a type that is not allowed.
RECURSIVE NormalizeArguments(_, _)
NormalizeArguments(input, output) ==
    IF input = <<>> THEN [raised |-> FALSE, output |-> output]
    ELSE IF \E t \in AllowedTypes : IsInstance(Head(input), t)
         THEN NormalizeArguments(Tail(input), Append(output, Str(Head(input))))
         ELSE [raised |-> TRUE, output |-> output]

RaisesOnPositiveOnly(rc) == rc > 0

\* execute: if result.returncode != 0: raise Exception(...)
RaisesOnExit(rc) == rc # 0

\* The exit codes a child process can end with (negative: killed by a signal).
ExitCodeSet == {0, 1, 2, -9}

\* os.environ of the process that calls execute.
OsEnviron == [PATH |-> "/usr/bin", HQ_PYLOG |-> "unset"]

ArgLists == UNION { [1..n -> ArgIds] : n \in 0..MaxArgs }

\* execute(args, input=..., env=...) is entered: environment and its update.
ExecuteCall ==
    /\ xpc = "idle" /\ calls < MaxCalls
    /\ \E a \in ArgLists, i \in {"None", "bytes"}, e \in {"None", "DEBUG"} :
         /\ xargs' = a
         /\ xinput' = i
         /\ xenv' = e
         /\ environment' = IF e # "None" THEN [OsEnviron EXCEPT !.HQ_PYLOG = e]
                           ELSE OsEnviron
    /\ calls' = calls + 1
    /\ spawnedBefore' = spawned
    /\ cmd' = <<>> /\ kwargs' = "none" /\ returncode' = <<>> /\ exc' = <<>>
    /\ xpc' = "normalize"
    /\ UNCHANGED spawned

\* cmd = normalize_arguments([self.binary_path, *args]) and the kwargs.
ExecuteNormalize ==
    /\ xpc = "normalize"
    /\ LET r == NormalizeArguments(
                    <<BinaryPath>> \o [i \in 1..Len(xargs) |-> ArgPool[xargs[i]]], <<>>)
       IN  IF r.raised
           THEN /\ exc' = <<[kind |-> "InvalidArgument", cmdline |-> <<>>, code |-> <<>>]>>
                /\ xpc' = "raised_invalid"
                /\ UNCHANGED <<cmd, kwargs>>
           ELSE /\ cmd' = r.output
                /\ kwargs' = IF xinput # "None" THEN "input" ELSE "stdin=DEVNULL"
                /\ xpc' = "run"
                /\ UNCHANGED exc
    /\ UNCHANGED <<xargs, xinput, xenv, environment, spawned, spawnedBefore,
                   returncode, calls>>

\* result = subprocess.run(cmd, cwd=workdir, env=environment, **kwargs)
ExecuteRun ==
    /\ xpc = "run"
    /\ spawned' = spawned + 1
    /\ \E rc \in ExitCodeSet : returncode' = <<rc>>
    /\ xpc' = "check"
    /\ UNCHANGED <<xargs, xinput, xenv, environment, cmd, kwargs, spawnedBefore,
                   exc, calls>>

\* if result.returncode != 0: raise Exception(command line, exit code);
\* return result
ExecuteCheck ==
    /\ xpc = "check"
    /\ IF RaisesOnExit(returncode[1])
       THEN /\ exc' = <<[kind |-> "ExitCode", cmdline |-> cmd, code |-> returncode]>>
            /\ xpc' = "raised_exit"
       ELSE /\ xpc' = "returned"
            /\ UNCHANGED exc
    /\ UNCHANGED <<xargs, xinput, xenv, environment, cmd, kwargs, spawned,
                   spawnedBefore, returncode, calls>>

\* The caller has the result or the exception and the call's locals are gone;
\* execute can be called again.
ExecuteLeave ==
    /\ xpc \in {"returned", "raised_exit", "raised_invalid"}
    /\ xpc' = "idle"
    /\ xargs' = <<>> /\ xinput' = "None" /\ xenv' = "None"
    /\ environment' = OsEnviron /\ cmd' = <<>> /\ kwargs' = "none"
    /\ returncode' = <<>> /\ exc' = <<>>
    /\ spawnedBefore' = spawned
    /\ UNCHANGED <<spawned, calls>>

ExecIdle ==
    /\ xpc = "idle" /\ xargs = <<>> /\ xinput = "None" /\ xenv = "None"
    /\ environment = OsEnviron /\ cmd = <<>> /\ kwargs = "none"
    /\ spawned = 0 /\ spawnedBefore = 0 /\ returncode = <<>> /\ exc = <<>>
    /\ calls = 0

\* The variables the execute specification leaves alone.
execIdle == <<graphVars, minVars, genVars, fsVars, convVars, substVars>>

ExecNext ==
    \/ ExecuteCall /\ UNCHANGED execIdle
    \/ ExecuteNormalize /\ UNCHANGED execIdle
    \/ ExecuteRun /\ UNCHANGED execIdle
    \/ ExecuteCheck /\ UNCHANGED execIdle
    \/ ExecuteLeave /\ UNCHANGED execIdle

(***************************************************************************)
(* Specifications                                                          *)
(***************************************************************************)

ExecInit ==
    /\ ExecIdle /\ GraphInit /\ wf = "awh"
    /\ MinIdle /\ GenIdle /\ FsIdle /\ ConvIdle /\ SubstIdle

GenInit ==
    /\ GenIdle /\ GraphInit /\ wf = "ligen"
    /\ MinIdle /\ ExecIdle /\ FsIdle /\ ConvIdle /\ SubstIdle

FsInit ==
    /\ FsIdle /\ GraphInit /\ wf = "awh"
    /\ MinIdle /\ ExecIdle /\ GenIdle /\ ConvIdle /\ SubstIdle

ConvInit ==
    /\ ConvStart /\ GraphInit /\ wf = "awh"
    /\ MinIdle /\ ExecIdle /\ GenIdle /\ FsIdle /\ SubstIdle

SubstInit ==
    /\ SubstStart /\ GraphInit /\ wf = "awh"
    /\ MinIdle /\ ExecIdle /\ GenIdle /\ FsIdle /\ ConvIdle

MinStart ==
    MinInit /\ ExecIdle /\ GenIdle /\ FsIdle /\ ConvIdle /\ SubstIdle

Init ==
    GraphInit /\ MinIdle /\ ExecIdle /\ GenIdle /\ FsIdle /\ ConvIdle /\ SubstIdle

\* The variables the job graph specification leaves alone.
graphIdle == <<minVars, execVars, genVars, fsVars, convVars, substVars>>

Next ==
    \/ SubmitCheckProtein /\ UNCHANGED graphIdle
    \/ SubmitVirtualScreening /\ UNCHANGED graphIdle
    \/ SubmitSelectLigands /\ UNCHANGED graphIdle
    \/ SubmitDocking /\ UNCHANGED graphIdle
    \/ SubmitMinimization /\ UNCHANGED graphIdle
    \/ SubmitSnapshot /\ UNCHANGED graphIdle
    \/ ClientSubmit /\ UNCHANGED graphIdle
    \/ \E t \in AllTasks : MakeReady(t) /\ UNCHANGED graphIdle
    \/ \E t \in AllTasks : Start(t) /\ UNCHANGED graphIdle
    \/ \E t \in AllTasks : Succeed(t) /\ UNCHANGED graphIdle
    \/ \E t \in AllTasks : Fail(t) /\ UNCHANGED graphIdle
    \/ \E t \in AllTasks : Skip(t) /\ UNCHANGED graphIdle

Spec == Init /\ [][Next]_vars

\* The tasks of one solvate_prepare call, run step by step by the scheduler's
\* workers.
SpecMin == MinStart /\ [][MinNext]_vars

\* Calls of BinaryWrapper.execute.
SpecExec == ExecInit /\ [][ExecNext]_vars

\* One run of screening_task on any ScreeningConfig.
SpecGen == GenInit /\ [][GenNext]_vars

\* ensure_directory on a workspace that other code fills with files and
\* directories.
SpecFs == FsInit /\ [][FsNext]_vars

\* A LigConvContext and the edge_dir calls made on it.
SpecConv == ConvInit /\ [][ConvNext]_vars

\* One .gro file and the modify_grofile_inplace calls made on it.
SpecSubst == SubstInit /\ [][SubstNext]_vars

(***************************************************************************)
(* Properties of the job graphs                                            *)
(***************************************************************************)

\* C1: a task is Running (or has run) only if every task in its deps has
\* Succeeded; the screening task never runs before its ligand expansion task
\* succeeded, and neither energy minimization task of solvate_prepare runs
\* before the editconf task succeeded.
C1_RunsOnlyAfterDepsSucceeded ==
    /\ \A t \in AllTasks :
         Started(t) => \A d \in deps[t] : status[d] = "Succeeded"
    /\ Started(T("screening", 0)) => status[T("vs_expansion", 0)] = "Succeeded"
    /\ \A e \in Edges : \A k \in {"em_ligand", "em_protein"} :
         Started(T(k, e)) => status[T("editconf", e)] = "Succeeded"

\* C1 witness: both minimization tasks of an edge run at once, after editconf.
C1_Witness ==
    /\ status[T("em_ligand", 1)] = "Running"
    /\ status[T("em_protein", 1)] = "Running"
    /\ status[T("editconf", 1)] = "Succeeded"

FailedUpstream(t) == \E d \in TransDeps(t) : status[d] = "Failed"

LigenDownstream ==
    { T(k, 0) : k \in {"vs_expansion", "screening", "select_ligands",
                       "dock_expansion", "docking"} }

\* C2: Failed (and Skipped) is terminal; a task that has started never goes back
\* to Pending or Skipped; a task with a failed task among its direct or
\* transitive dependencies is never Ready, Running or finished, and once the
\* scheduler has nothing left to do it is Skipped. In ligen_workflow a failed
\* protein check leaves screening, ligand selection and docking Skipped.
C2_FailurePropagatesAsSkipped ==
    /\ [][\A t \in AllTasks :
            /\ status[t] \in {"Failed", "Skipped"} => status'[t] = status[t]
            /\ (Started(t) \/ status[t] = "Ready")
                 => status'[t] \notin {"Pending", "Skipped"}]_vars
    /\ [](\A t \in AllTasks :
            FailedUpstream(t) => status[t] \in {"Pending", "Skipped"})
    /\ []((bpc = "submitted" /\ ~ ENABLED Next) =>
            /\ \A t \in InJob :
                 status[t] \in {"Succeeded", "Failed", "Skipped"}
            /\ \A t \in AllTasks : FailedUpstream(t) => status[t] = "Skipped"
            /\ status[T("check_protein", 0)] = "Failed"
                 => \A t \in LigenDownstream : status[t] = "Skipped")

\* C2 witness: the protein check failed and the run ended with docking Skipped.
C2_Witness ==
    /\ status[T("check_protein", 0)] = "Failed"
    /\ \A t \in LigenDownstream : status[t] = "Skipped"

\* C3: a consumer of a fan-out stage has every terminal task of that stage
\* among its deps: the snapshot task depends on the ligand and the protein
\* minimization task of every edge, the ligand selection task on every terminal
\* task of the screening stage; so the consumer starts only after all of them
\* succeeded.
C3_ConsumerDependsOnWholeFanOut ==
    (bpc \in {"built", "submitted"}) =>
        /\ wf = "awh" =>
             /\ StageTerminals("minimization") \subseteq deps[T("snapshot", 0)]
             /\ \A e \in Edges :
                  {T("em_ligand", e), T("em_protein", e)}
                      \subseteq deps[T("snapshot", 0)]
             /\ Started(T("snapshot", 0)) =>
                  \A e \in Edges : \A k \in {"em_ligand", "em_protein"} :
                      status[T(k, e)] = "Succeeded"
        /\ wf = "ligen" =>
             /\ StageTerminals("screening") # {}
             /\ StageTerminals("screening") \subseteq deps[T("select_ligands", 0)]
             /\ Started(T("select_ligands", 0)) =>
                  \A t \in StageTerminals("screening") : status[t] = "Succeeded"

\* C3 witness: the snapshot task runs, every minimization task having succeeded.
C3_Witness ==
    /\ status[T("snapshot", 0)] = "Running"
    /\ \A e \in Edges : \A k \in {"em_ligand", "em_protein"} :
         status[T(k, e)] = "Succeeded"

StageIndex(s) == CHOOSE i \in 1..Len(LigenStageOrder) : LigenStageOrder[i] = s

\* C4: in the ligen_workflow graph a task of a stage has started only if every
\* task of the previous stage (hence of every earlier stage) has succeeded, and
\* tasks of two different stages are never Running at the same time.
C4_LigenStagesChained ==
    (wf = "ligen" /\ bpc \in {"built", "submitted"}) =>
        /\ \A i \in 1..Len(LigenStageOrder) :
             \E t \in InJob : Stage(t) = LigenStageOrder[i]
        /\ \A t, u \in InJob :
             (StageIndex(Stage(u)) < StageIndex(Stage(t)) /\ Started(t))
                 => status[u] = "Succeeded"
        /\ \A t, u \in InJob :
             (status[t] = "Running" /\ status[u] = "Running")
                 => Stage(t) = Stage(u)

\* C4 witness: the docking task runs, all earlier stages having succeeded.
C4_Witness ==
    /\ status[T("docking", 0)] = "Running"
    /\ status[T("select_ligands", 0)] = "Succeeded"
    /\ status[T("check_protein", 0)] = "Succeeded"

(***************************************************************************)
(* Properties of the solvate/minimize tasks                                *)
(***************************************************************************)

Unordered(t, u) == t # u /\ t \notin TransDeps(u) /\ u \notin TransDeps(t)

\* C5: two tasks that the dependency relation does not order never create,
\* write or delete the same path, and no task's write or delete fails because
\* of what another task did to the file: in particular for the ligand and the
\* protein minimization task of solvate_prepare.
C5_UnorderedTasksTouchDisjointPaths ==
    /\ \A t, u \in MinTasks :
         Unordered(t, u) => touched[t] \cap touched[u] = {}
    /\ \A t \in MinTasks : failure[t] # "missing_file"

\* C10: for every workload, ligand as well as protein, grompp has been invoked
\* only after the atom-rename table was applied to its correctBox.gro.
C10_GrofileFixedBeforeGrompp ==
    \A lop \in Lops : lop \in grompped => CorrectedBoxPath(lop) \in fixedGro

\* The files under the workload's directory that its minimization task
\* created or wrote and that are still there.
LeftUnder(lop) ==
    { p \in touched[EMTask(lop)] \cap files :
        p # Directory(lop) /\ IsPrefix(Directory(lop), p) }

\* The four files the scenario names.
NamedOutputs(lop) ==
    {SolvatedPath(lop), IonsGro(lop), EmTpr(lop), EmOutMdp(lop)}

\* C11 as stated: after a successful energy_minimization_task the files its
\* steps left under the workload's directory are exactly solvated.gro,
\* ions.gro, EM.tpr and EMout.mdp.
C11_ExactlyFourFilesLeft ==
    \A lop \in Lops :
        tpc[EMTask(lop)] = "done" => LeftUnder(lop) = NamedOutputs(lop)

\* C11 amended: after a successful energy_minimization_task solvated.gro,
\* ions.gro, EM.tpr and EMout.mdp are under the workload's directory, and
\* every other file its steps left there is an output of mdrun -deffnm EM
\* (named EM.*); addIons.tpr is not left.
C11_NamedFilesAndMdrunOutputsLeft ==
    \A lop \in Lops :
        tpc[EMTask(lop)] = "done" =>
            /\ NamedOutputs(lop) \subseteq LeftUnder(lop)
            /\ LeftUnder(lop) \ NamedOutputs(lop) \subseteq MdrunOutputs(lop)
            /\ AddIonsTpr(lop) \notin files

\* C11 witness: the ligand's minimization task returned and the schedule
\* recorded it as Succeeded.
C11_Witness ==
    /\ tpc[EMTask("Ligand")] = "done"
    /\ status[EMTask("Ligand")] = "Succeeded"
    /\ NamedOutputs("Ligand") \subseteq files

(***************************************************************************)
(* Properties of BinaryWrapper.execute                                     *)
(***************************************************************************)

\* The args list holds a value that is not text, a path or an integer.
HasDisallowedArg ==
    \E i \in 1..Len(xargs) :
        ArgPool[xargs[i]].type \notin {"str", "PosixPath", "int", "bool"}

\* C7: a call whose args hold a value that is not text, a path or an integer
\* raises the invalid-argument error and spawns no process: the number of
\* spawned processes is what it was when the call began.
C7_DisallowedArgSpawnsNothing ==
    HasDisallowedArg =>
        /\ spawned = spawnedBefore
        /\ xpc \in {"normalize", "raised_invalid"}
        /\ xpc # "normalize" => (exc # <<>> /\ exc[1].kind = "InvalidArgument")

\* C7 witness: a call with a disallowed argument has raised, after an earlier
\* call did spawn a process.
C7_Witness ==
    /\ xpc = "raised_invalid"
    /\ HasDisallowedArg
    /\ spawnedBefore = 1
    /\ spawned = 1

\* The command line of the current call, fully expanded.
ExpandedCommand ==
    [i \in 1..(Len(xargs) + 1) |->
        IF i = 1 THEN BinaryPath.val
        ELSE LET v == ArgPool[xargs[i - 1]]
             IN  CASE v.type = "int" -> ToString(v.val)
                   [] v.type = "bool" -> (IF v.val THEN "True" ELSE "False")
                   [] OTHER -> v.val]

\* C8: a call with valid arguments spawns the process exactly once; it returns
\* a result exactly when the exit code is 0, and for a nonzero exit code it
\* raises a failure carrying the expanded command line and that exit code.
C8_SpawnsOnceAndReportsExitCode ==
    (xpc # "idle" /\ ~HasDisallowedArg) =>
        /\ spawned \in {spawnedBefore, spawnedBefore + 1}
        /\ xpc \in {"normalize", "run"}
             => spawned = spawnedBefore
        /\ returncode # <<>> => spawned = spawnedBefore + 1
        /\ xpc = "returned" => (returncode = <<0>> /\ exc = <<>>)
        /\ xpc = "raised_exit" =>
             /\ returncode \notin {<<0>>, <<>>}
             /\ exc = <<[kind |-> "ExitCode", cmdline |-> ExpandedCommand,
                         code |-> returncode]>>
        /\ xpc = "check" => returncode # <<>>
        /\ xpc # "raised_invalid"

\* C8 witness: a call with an integer argument ended with the child killed by
\* a signal, and raised.
C8_Witness ==
    /\ xpc = "raised_exit"
    /\ returncode = <<-9>>
    /\ Len(xargs) = 2 /\ ArgPool[xargs[2]].type = "int"
    /\ spawned = spawnedBefore + 1

(***************************************************************************)
(* Properties of screening_task and ensure_directory                       *)
(***************************************************************************)

ZeroWorkerCount ==
    \/ config.num_parser = 0
    \/ config.num_workers_unfold = 0
    \/ config.num_workers_docknscore = 0

\* C6: screening_task rejects a ScreeningConfig with a worker count of zero with
\* a configuration error: the engine is never invoked and no stage with zero
\* workers is emitted.
C6_ZeroWorkersRejected ==
    (gpc # "idle" /\ ZeroWorkerCount) =>
        /\ engineRuns = 0
        /\ description # <<>> =>
             \A i \in 1..Len(description[1].pipeline) :
                 StageWorkers(description[1].pipeline[i]) # <<0>>
        /\ gpc = "done" => gerr = "ConfigurationError"

\* C9: ensure_directory(path, clear=True), a file created inside path, then
\* ensure_directory(path, clear=True) again: path is a directory and nothing
\* is inside it.
C9_ClearRoundTripLeavesEmptyDirectory ==
    round = 3 =>
        /\ fres = <<"returned", scnPath>>
        /\ IsDir(dirs, scnPath)
        /\ ~IsFile(regs, scnPath)
        /\ \A q \in dirs \cup regs : ~(q # scnPath /\ IsPrefix(scnPath, q))

\* C9 witness: the round trip was made on a directory one level down.
C9_Witness ==
    /\ round = 3
    /\ Len(scnPath) = 2
    /\ scnPath \in dirs

(***************************************************************************)
(* Properties of the per-edge directories                                  *)
(***************************************************************************)

\* C12: two edges that differ as ordered pairs of ligand names, Edge(a, b)
\* and Edge(b, a) with a # b among them, never get the same directory name,
\* and so never the same edge_dir under one context.
C12_EdgeDirectoriesDistinct ==
    \A r1, r2 \in edgeDirs :
        r1.edge # r2.edge =>
            /\ EdgeDirectoryName(r1.edge) # EdgeDirectoryName(r2.edge)
            /\ r1.dir # r2.dir

(***************************************************************************)
(* Properties of the pipeline description                                  *)
(***************************************************************************)

\* The stage a pipeline entry configures, read off its kind.
StageOfKind(kind) ==
    CASE kind = "reader_mol2" -> "reader"
      [] kind = "parser_mol2" -> "parser"
      [] kind = "bucketizer_ligand" -> "bucketizer"
      [] kind = "unfold" -> "unfold"
      [] kind = "dock_n_score" -> "dock_n_score"
      [] kind = "writer_csv_bucket" -> "writer"
      [] kind = "tracker_bucket" -> "tracker"
      [] kind = "sink_bucket" -> "sink"
      [] OTHER -> "unknown"

\* The stage whose setup a pipeline entry waits for, <<>> when it waits for none.
WaitSetup(stage) ==
    IF "wait_setup" \in DOMAIN stage THEN <<stage.wait_setup>> ELSE <<>>

\* The names the entries of a pipeline give their stages.
StageNames(pl) ==
    { pl[i].name : i \in { j \in 1..Len(pl) : "name" \in DOMAIN pl[j] } }

\* C13: for every ScreeningConfig the description lists the stages in the
\* order reader, parser, bucketizer, unfold, dock_n_score, writer, tracker,
\* sink; the tracker and the sink both wait for the setup of the stage named
\* "reader"; and every wait_setup names a stage of the pipeline.
C13_StageOrderAndAuxiliarySync ==
    description # <<>> =>
        LET pl == description[1].pipeline
        IN  /\ [i \in 1..Len(pl) |-> StageOfKind(pl[i].kind)] =
                  <<"reader", "parser", "bucketizer", "unfold", "dock_n_score",
                    "writer", "tracker", "sink">>
            /\ \A i \in 1..Len(pl) :
                  StageOfKind(pl[i].kind) \in {"tracker", "sink"} =>
                      WaitSetup(pl[i]) = <<"reader">>
            /\ \A i \in 1..Len(pl) :
                  WaitSetup(pl[i]) # <<>> => WaitSetup(pl[i])[1] \in StageNames(pl)

(***************************************************************************)
(* Properties of the text substitution                                     *)
(***************************************************************************)

\* C14: for every file content, a second modify_grofile_inplace leaves the
\* content the first one left.
C14_SubstitutionIdempotent ==
    groCalls = 2 => gro = groFirst[1]

(***************************************************************************)
(* Frame of ensure_directory                                               *)
(***************************************************************************)

\* The entries a step removes from the filesystem.
Removed == (dirs \cup regs) \ (dirs' \cup regs')

\* C15: ensure_directory(path, clear=True) removes entries only at or below
\* path, also when path names a regular file and the fallback to the parent
\* applies; ensure_directory(path) without clear removes nothing.  (No other
\* step removes anything, and scnPath' and fclear' are the arguments of the
\* call that makes the step.)
C15_ClearRemovesOnlyAtOrBelowPath ==
    [][ /\ \A q \in Removed : IsPrefix(scnPath', q)
        /\ ~fclear' => Removed = {} ]_vars

====
